---- MODULE Spec2Model ----
(***************************************************************************)
(* A model of the three command-line tools of llm-observability-copilot:   *)
(*   - src/traffic_generator.py  : the scenario runner and its statistics  *)
(*   - src/datadog/deploy_datadog.py : dashboard / monitor / SLO upsert    *)
(*   - src/datadog/setup_workflow.py : incident clean-up and workflow      *)
(* One run of one tool is one behaviour: Init picks the tool and its       *)
(* inputs (command line, environment, vendor state).                       *)
(***************************************************************************)
EXTENDS Integers, Sequences, FiniteSets, TLC

\* ------------------------------------------------------------------ bounds
\* Largest --requests value explored.
MaxRequests == 2
\* Cap on the fixed per-scenario request counts of run_all_scenarios.
MaxAllRequests == 1
\* Largest tokens.total_tokens value a response body carries.
MaxTokens == 1
\* Number of distinct monitor / SLO names, and the longest "monitors" or
\* "slos" list of a configuration document.
MaxConfig == 2
\* Largest number of incidents the vendor lists.
MaxIncidents == 2
\* Largest time, in milliseconds, the target takes to answer; it answers
\* every request of one run after the same time.
MaxLatency == 1

\* ------------------------------------------------------- program constants
HttpOk == 200
AllNormalRequests == 10
AllSpikeRequests == 10
AllErrorsRequests == 8
AllCostRequests == 3
AllSafeRequests == 5

Scenarios == {"normal", "spike", "errors", "cost", "safe", "all"}

\* The order in which run_all_scenarios runs the scenario functions.
AllOrder == <<"normal", "spike", "errors", "cost", "safe">>

\* The request count run_all_scenarios passes to each scenario function,
\* capped by MaxAllRequests.
AllRequests(s) ==
    LET count == CASE s = "normal" -> AllNormalRequests
                   [] s = "spike"  -> AllSpikeRequests
                   [] s = "errors" -> AllErrorsRequests
                   [] s = "cost"   -> AllCostRequests
                   [] OTHER        -> AllSafeRequests
    IN  IF count < MaxAllRequests THEN count ELSE MaxAllRequests

\* ------------------------------------------------------ the target's answers
\* What the target does with one POST.  arrived = FALSE: session.post raises
\* (connection failure, timeout).  Otherwise a status line arrives, and the
\* body is read later: "object" is a JSON object, "notobject" is JSON that is
\* not an object, "notjson" makes resp.json() raise, "unreadable" makes
\* resp.text() raise.  tokens = -1: the object has no (or an empty) "tokens" member;
\* tokens = t >= 0: it has tokens.total_tokens = t.
NoResponse == [arrived |-> FALSE, status |-> 0, body |-> "none", tokens |-> -1]

Responses ==
    {NoResponse}
    \cup [arrived : {TRUE}, status : {HttpOk}, body : {"object"}, tokens : -1..MaxTokens]
    \cup [arrived : {TRUE}, status : {HttpOk}, body : {"notobject", "notjson"}, tokens : {-1}]
    \cup [arrived : {TRUE}, status : {400}, body : {"notjson", "unreadable"}, tokens : {-1}]

\* The record a dispatcher returns: its "ok" member and whether it has a
\* "latency_ms" member.
NoResult == [ok |-> FALSE, latency |-> FALSE]

ZeroStats ==
    [total |-> 0, success |-> 0, errors |-> 0, total_latency_ms |-> 0,
     total_tokens |-> 0]

IdleCall == [st |-> "idle", resp |-> NoResponse, result |-> NoResult]

VARIABLES
    tool,        \* which tool this run is
    scenario,    \* args.scenario
    requests,    \* args.requests
    latency_ms,  \* what a dispatcher measures: (time.time() - start) * 1000
    pc,          \* where the main task is
    cur,         \* the scenario function being run
    phase,       \* its position in AllOrder (0: a single scenario)
    n,           \* the scenario function's "requests" parameter
    i,           \* the scenario loop's index
    calls,       \* the send_chat / send_malformed coroutines of the scenario
    stats,       \* TrafficGenerator.stats
    summaries,   \* how many times print_summary has run
    exit,        \* how the process ended
    intrAt,      \* where a user interrupt has hit, if any
    dispatched,  \* history: dispatcher calls made by the current scenario
    scenStats,   \* history: stats when the current scenario was entered
    callStats,   \* history: stats when the latest sequential call was made
    seen,        \* history: the responses the current scenario has received
    fieldSum,    \* history: sum of the tokens.total_tokens of 200 responses
    latSum,      \* history: sum of the latencies the dispatchers have measured
    api_key,     \* DD_API_KEY is set and not empty
    app_key,     \* DD_APP_KEY is set and not empty
    reported,    \* an error message has been printed
    apiCalls,    \* vendor API calls issued so far
    vendor,      \* what the vendor holds
    config,      \* the names of the "monitors" / "slos" list being processed
    existing,    \* existing_map / existing_names of the function running
    idx,         \* position in config, or in the incident list
    created,     \* len(created_ids) of create_monitors and of create_slos
    workflow_id, \* what create_workflow returned
    trail        \* history: steps carried out, calls that failed, duplicate creates

trafficVars == <<scenario, requests, latency_ms, cur, phase, n, i, calls, stats, summaries,
                 intrAt, dispatched, scenStats, callStats, seen, fieldSum,
                 latSum>>

toolVars == <<api_key, app_key, reported, apiCalls, vendor, config, existing, idx,
              created, workflow_id, trail>>

vars == <<tool, pc, exit, trafficVars, toolVars>>

\* Monitor and SLO names.
Names == 1..MaxConfig

\* The lists of names a configuration document may hold, duplicates included.
ConfigLists == UNION {[1..m -> Names] : m \in 0..MaxConfig}

\* The vendor's assets: how many dashboards carry the configured title, how
\* many monitors and SLOs carry each name, how many incidents are listed and
\* whether a workflow named "LLM Copilot ..." exists.
VendorStates ==
    [dashboards : 0..1, monitors : [Names -> 0..1], slos : [Names -> 0..1],
     incidents : 0..MaxIncidents, workflow : BOOLEAN]

NoVendor ==
    [dashboards |-> 0, monitors |-> [x \in Names |-> 0], slos |-> [x \in Names |-> 0],
     incidents |-> 0, workflow |-> FALSE]

NoTrail == [steps |-> {}, failed |-> {}, dup |-> FALSE]

\* ------------------------------------------------------------ the dispatchers
Bump(st, field) == [st EXCEPT ![field] = @ + 1]

\* send_chat, from the call of session.post to its first suspension after it.
\* post raises: the except clause counts the request and an error and returns.
\* A response arrives: total is incremented at once; a non-200 status also
\* increments errors; then the body is awaited (resp.json() or resp.text()).
SendChatOnResponse(st, r) ==
    IF ~r.arrived
    THEN [stats |-> Bump(Bump(st, "total"), "errors"), st |-> "done",
          result |-> [ok |-> FALSE, latency |-> TRUE]]
    ELSE IF r.status = HttpOk
    THEN [stats |-> Bump(st, "total"), st |-> "reading", result |-> NoResult]
    ELSE [stats |-> Bump(Bump(st, "total"), "errors"), st |-> "reading",
          result |-> NoResult]

\* data.get("tokens") / data["tokens"].get("total_tokens", 0)
TokensOf(r) == IF r.tokens >= 0 THEN r.tokens ELSE 0

\* The except clause of send_chat.
SendChatExcept(st) ==
    [stats |-> Bump(Bump(st, "total"), "errors"), st |-> "done",
     result |-> [ok |-> FALSE, latency |-> TRUE]]

\* A variant of AddTokens that assigns the token count instead of adding it.
AssignTokens(st, r) == [st EXCEPT !.total_tokens = TokensOf(r)]

\* self.stats["total_tokens"] += ...
AddTokens(st, r) == [st EXCEPT !.total_tokens = @ + TokensOf(r)]

\* send_chat, from the completion of the body read to its return.
SendChatOnBody(st, r) ==
    IF r.status = HttpOk
    THEN CASE r.body = "object" ->
                [stats |-> AddTokens(Bump(st, "success"), r),
                 st |-> "done", result |-> [ok |-> TRUE, latency |-> TRUE]]
           [] r.body = "notobject" ->
                \* success is counted, then data.get raises AttributeError
                SendChatExcept(Bump(st, "success"))
           [] OTHER ->
                \* resp.json() raises
                SendChatExcept(st)
    ELSE IF r.body = "unreadable"
         THEN SendChatExcept(st)  \* resp.text() raises
         ELSE [stats |-> st, st |-> "done", result |-> [ok |-> FALSE, latency |-> TRUE]]

\* A variant of SendMalformedOnResponse that counts the expected rejection as a
\* success and the unexpected 200 as an error.
SendMalformedInverted(st, r) ==
    IF ~r.arrived
    THEN [stats |-> Bump(Bump(st, "total"), "errors"), st |-> "done",
          result |-> [ok |-> FALSE, latency |-> FALSE]]
    ELSE IF r.status # HttpOk
    THEN [stats |-> Bump(Bump(st, "total"), "success"), st |-> "done",
          result |-> [ok |-> FALSE, latency |-> TRUE]]
    ELSE [stats |-> Bump(Bump(st, "total"), "errors"), st |-> "done",
          result |-> [ok |-> TRUE, latency |-> TRUE]]

\* A variant of SendMalformedOnResponse that leaves a rejected probe out of
\* the error counter.
SendMalformedUncounted(st, r) ==
    IF ~r.arrived
    THEN [stats |-> Bump(Bump(st, "total"), "errors"), st |-> "done",
          result |-> [ok |-> FALSE, latency |-> FALSE]]
    ELSE IF r.status # HttpOk
    THEN [stats |-> Bump(st, "total"), st |-> "done",
          result |-> [ok |-> FALSE, latency |-> TRUE]]
    ELSE [stats |-> Bump(Bump(st, "total"), "success"), st |-> "done",
          result |-> [ok |-> TRUE, latency |-> TRUE]]

\* send_malformed: the body is never read, so the call ends with the response.
SendMalformedOnResponse(st, r) ==
    IF ~r.arrived
    THEN [stats |-> Bump(Bump(st, "total"), "errors"), st |-> "done",
          result |-> [ok |-> FALSE, latency |-> FALSE]]
    ELSE IF r.status # HttpOk
    THEN [stats |-> Bump(Bump(st, "total"), "errors"), st |-> "done",
          result |-> [ok |-> FALSE, latency |-> TRUE]]
    ELSE [stats |-> Bump(Bump(st, "total"), "success"), st |-> "done",
          result |-> [ok |-> TRUE, latency |-> TRUE]]

\* send_chat adds the latency it measured when a response arrives (line 93);
\* its except clause measures one too and adds nothing (lines 113-115).
SendChatLatency(st, r, ms) ==
    IF r.arrived THEN [st EXCEPT !.total_latency_ms = @ + ms] ELSE st

\* send_malformed measures a latency when a response arrives and never adds
\* it to the statistics.
SendMalformedLatency(st, r, ms) == st

\* ------------------------------------------------------------------ history
\* The counters of the statistics a snapshot keeps.
Counters(st) == [st EXCEPT !.total_latency_ms = 0]

NothingSeen == [k |-> 0, r |-> NoResponse]

Observe(sn, r) ==
    IF sn.k = 0 THEN [k |-> 1, r |-> r]
    ELSE IF sn.k = 1 /\ sn.r = r THEN sn
    ELSE [k |-> 2, r |-> NoResponse]

\* The tokens.total_tokens member of a response (0 when it has none).
TokenField(r) ==
    IF r.arrived /\ r.status = 200 /\ r.body = "object" /\ r.tokens >= 0
    THEN r.tokens ELSE 0

\* --------------------------------------------------------------------- Init
InitTraffic ==
    /\ tool = "traffic"
    /\ scenario \in Scenarios
    /\ requests \in 0..MaxRequests
    /\ latency_ms \in 1..MaxLatency
    /\ scenario = "all" => requests = MaxRequests  \* run_all_scenarios ignores it
    /\ pc = "start"
    /\ cur = "none" /\ phase = 0 /\ n = 0 /\ i = 0
    /\ calls = [k \in 1..MaxRequests |-> IdleCall]
    /\ stats = ZeroStats
    /\ summaries = 0
    /\ exit = "running"
    /\ intrAt = "none"
    /\ dispatched = 0 /\ scenStats = ZeroStats /\ callStats = ZeroStats
    /\ seen = NothingSeen /\ fieldSum = 0 /\ latSum = 0
    /\ api_key = FALSE /\ app_key = FALSE /\ reported = FALSE /\ apiCalls = 0
    /\ vendor = NoVendor /\ config = <<>> /\ existing = {} /\ idx = 0
    /\ created = [monitors |-> 0, slos |-> 0] /\ workflow_id = "unset"
    /\ trail = NoTrail

\* A run of the provisioning tool or of the workflow tool: the environment
\* and the vendor's state are the inputs.
InitTools ==
    /\ tool \in {"deploy", "workflow"}
    /\ pc = "start" /\ exit = "running"
    /\ api_key \in BOOLEAN /\ app_key \in BOOLEAN
    /\ vendor \in VendorStates
    /\ tool = "deploy" => (vendor.incidents = 0 /\ ~vendor.workflow)
    /\ tool = "workflow" => (vendor.dashboards = 0 /\ vendor.monitors = NoVendor.monitors
                                /\ vendor.slos = NoVendor.slos)
    /\ reported = FALSE /\ apiCalls = 0
    /\ config = <<>> /\ existing = {} /\ idx = 0
    /\ created = [monitors |-> 0, slos |-> 0] /\ workflow_id = "unset"
    /\ trail = NoTrail
    /\ scenario = "all" /\ requests = 0 /\ latency_ms = 1
    /\ cur = "none" /\ phase = 0
    /\ n = 0 /\ i = 0
    /\ calls = [k \in 1..MaxRequests |-> IdleCall]
    /\ stats = ZeroStats /\ summaries = 0 /\ intrAt = "none" /\ dispatched = 0
    /\ scenStats = ZeroStats /\ callStats = ZeroStats
    /\ seen = NothingSeen /\ fieldSum = 0 /\ latSum = 0

Init == InitTraffic \/ InitTools

\* -------------------------------------------------------- the scenario runner
EnterScenario(s, count, ph) ==
    /\ cur' = s /\ n' = count /\ phase' = ph /\ i' = 0
    /\ calls' = [k \in 1..MaxRequests |-> IdleCall]
    /\ dispatched' = 0 /\ scenStats' = Counters(stats) /\ seen' = NothingSeen
    /\ pc' = "loop"

\* main: the dispatch on args.scenario.
TrafficStart ==
    /\ tool = "traffic" /\ pc = "start"
    /\ IF scenario = "all"
       THEN EnterScenario(AllOrder[1], AllRequests(AllOrder[1]), 1)
       ELSE EnterScenario(scenario, requests, 0)
    /\ UNCHANGED toolVars /\ UNCHANGED <<tool, scenario, requests, latency_ms, stats, summaries, exit, intrAt,
                   callStats, fieldSum, latSum>>

\* A scenario function returns: to main (then print_summary), or to
\* run_all_scenarios, which sleeps 5 s before the next one.
ScenarioReturns ==
    IF phase \in 1..(Len(AllOrder) - 1) THEN pc' = "cooldown" ELSE pc' = "summary"

\* One iteration of a sequential scenario's loop, up to the await of the call.
Dispatch ==
    /\ tool = "traffic" /\ pc = "loop" /\ cur # "spike" /\ i < n
    /\ calls' = [calls EXCEPT ![1] = [IdleCall EXCEPT !.st = "posting"]]
    /\ dispatched' = dispatched + 1
    /\ callStats' = Counters(stats)
    /\ pc' = "await_call"
    /\ UNCHANGED toolVars /\ UNCHANGED <<tool, scenario, requests, latency_ms, cur, phase, n, i, stats, summaries,
                   exit, intrAt, scenStats, seen, fieldSum, latSum>>

\* The loop of a sequential scenario is exhausted.
LoopExit ==
    /\ tool = "traffic" /\ pc = "loop" /\ cur # "spike" /\ i >= n
    /\ ScenarioReturns
    /\ UNCHANGED toolVars /\ UNCHANGED <<tool, scenario, requests, latency_ms, cur, phase, n, i, calls, stats,
                   summaries, exit, intrAt, dispatched, scenStats, callStats,
                   seen, fieldSum, latSum>>

\* scenario_spike: n coroutines are created and handed to asyncio.gather,
\* which starts them all; each runs up to its session.post.
SpikeLaunch ==
    /\ tool = "traffic" /\ pc = "loop" /\ cur = "spike"
    /\ calls' = [k \in 1..MaxRequests |->
                    IF k <= n THEN [IdleCall EXCEPT !.st = "posting"] ELSE IdleCall]
    /\ dispatched' = dispatched + n
    /\ pc' = "gather"
    /\ UNCHANGED toolVars /\ UNCHANGED <<tool, scenario, requests, latency_ms, cur, phase, n, i, stats, summaries,
                   exit, intrAt, scenStats, callStats, seen, fieldSum, latSum>>

\* The target answers call k (or the post fails), latency_ms milliseconds
\* after the dispatcher took its start time.
Respond(k, r) ==
    /\ tool = "traffic" /\ pc \in {"await_call", "gather"}
    /\ calls[k].st = "posting"
    /\ LET out == IF cur = "errors" THEN SendMalformedOnResponse(stats, r)
                                    ELSE SendChatOnResponse(stats, r)
       IN /\ stats' = IF cur = "errors" THEN SendMalformedLatency(out.stats, r, latency_ms)
                                        ELSE SendChatLatency(out.stats, r, latency_ms)
          /\ calls' = [calls EXCEPT ![k] = [st |-> out.st, resp |-> r, result |-> out.result]]
    /\ seen' = Observe(seen, r)
    /\ fieldSum' = IF cur = "errors" THEN fieldSum ELSE fieldSum + TokenField(r)
    /\ latSum' = latSum + latency_ms
    /\ UNCHANGED toolVars /\ UNCHANGED <<tool, scenario, requests, latency_ms, pc, cur, phase, n, i, summaries, exit,
                   intrAt, dispatched, scenStats, callStats>>

\* The body of call k's response has been read (or the read has failed).
ReadBody(k) ==
    /\ tool = "traffic" /\ pc \in {"await_call", "gather"}
    /\ calls[k].st = "reading"
    /\ LET out == SendChatOnBody(stats, calls[k].resp)
       IN /\ stats' = out.stats
          /\ calls' = [calls EXCEPT ![k].st = out.st, ![k].result = out.result]
    /\ UNCHANGED toolVars /\ UNCHANGED <<tool, scenario, requests, latency_ms, pc, cur, phase, n, i, summaries, exit,
                   intrAt, dispatched, scenStats, callStats, seen, fieldSum, latSum>>

\* A variant of Paces under which no scenario sleeps between two requests.
PacesNever(s, j, count) == FALSE

\* Whether the scenario sleeps after request i: scenario_normal skips the
\* sleep after its last request, the others always sleep.
Paces(s, j, count) == IF s = "normal" THEN j < count - 1 ELSE TRUE

\* The awaited call of a sequential scenario has returned its record.
CallReturns ==
    /\ tool = "traffic" /\ pc = "await_call" /\ calls[1].st = "done"
    /\ IF Paces(cur, i, n)
       THEN pc' = "sleep" /\ i' = i
       ELSE pc' = "loop" /\ i' = i + 1
    /\ UNCHANGED toolVars /\ UNCHANGED <<tool, scenario, requests, latency_ms, cur, phase, n, calls, stats, summaries,
                   exit, intrAt, dispatched, scenStats, callStats, seen, fieldSum, latSum>>

\* asyncio.sleep between two requests has elapsed.
Wake ==
    /\ tool = "traffic" /\ pc = "sleep"
    /\ pc' = "loop" /\ i' = i + 1
    /\ UNCHANGED toolVars /\ UNCHANGED <<tool, scenario, requests, latency_ms, cur, phase, n, calls, stats, summaries,
                   exit, intrAt, dispatched, scenStats, callStats, seen, fieldSum, latSum>>

\* A variant of GatherDone that is satisfied by the first task to complete.
GatherFirstCompleted == \E k \in 1..n : calls[k].st = "done"

\* asyncio.gather(*tasks) without return_exceptions: send_chat raises nothing,
\* so the gather completes when every task has.
GatherDone == \A k \in 1..n : calls[k].st = "done"

GatherReturns ==
    /\ tool = "traffic" /\ pc = "gather" /\ GatherDone
    /\ ScenarioReturns
    /\ UNCHANGED toolVars /\ UNCHANGED <<tool, scenario, requests, latency_ms, cur, phase, n, i, calls, stats,
                   summaries, exit, intrAt, dispatched, scenStats, callStats,
                   seen, fieldSum, latSum>>

\* run_all_scenarios: asyncio.sleep(5) has elapsed, the next scenario starts.
CooldownEnds ==
    /\ tool = "traffic" /\ pc = "cooldown"
    /\ EnterScenario(AllOrder[phase + 1], AllRequests(AllOrder[phase + 1]), phase + 1)
    /\ UNCHANGED toolVars /\ UNCHANGED <<tool, scenario, requests, latency_ms, stats, summaries, exit, intrAt,
                   callStats, fieldSum, latSum>>

\* generator.print_summary(), then main returns and the process ends.
PrintSummary ==
    /\ tool = "traffic" /\ pc = "summary"
    /\ summaries' = summaries + 1
    /\ pc' = "exited" /\ exit' = "0"
    /\ UNCHANGED toolVars /\ UNCHANGED <<tool, scenario, requests, latency_ms, cur, phase, n, i, calls, stats, intrAt,
                   dispatched, scenStats, callStats, seen, fieldSum, latSum>>

\* ------------------------------------------------------------ user interrupt
\* The main task is suspended: in a request, a pacing sleep, the gather or a
\* cooldown.
Suspended ==
    \/ pc \in {"sleep", "gather", "cooldown"}
    \/ pc = "await_call" /\ calls[1].st # "done"

\* Which exception classes main's "except KeyboardInterrupt" clause catches.
MainCatches(exc) == exc = "KeyboardInterrupt"

\* SIGINT while the main task is suspended.  asyncio.run cancels the main
\* task (directly from its SIGINT handler, or after KeyboardInterrupt has left
\* the event loop), so what is thrown into main at its await is
\* CancelledError; asyncio.run then ends with KeyboardInterrupt.
InterruptSuspended ==
    /\ tool = "traffic" /\ Suspended /\ intrAt = "none"
    /\ intrAt' = "suspended"
    /\ IF MainCatches("CancelledError")
       THEN pc' = "summary" /\ exit' = exit
       ELSE pc' = "exited" /\ exit' = "KeyboardInterrupt"
    /\ UNCHANGED toolVars /\ UNCHANGED <<tool, scenario, requests, latency_ms, cur, phase, n, i, calls, stats,
                   summaries, dispatched, scenStats, callStats, seen, fieldSum, latSum>>

\* SIGINT while main's own code is running between two awaits, on a build
\* whose default handler raises KeyboardInterrupt in the running frame.  (A
\* build whose asyncio.run handles SIGINT itself cancels the main task
\* instead, which is InterruptSuspended at the next await.)
InterruptRunning ==
    /\ tool = "traffic" /\ pc = "loop" /\ intrAt = "none"
    /\ intrAt' = "running"
    /\ IF MainCatches("KeyboardInterrupt")
       THEN pc' = "summary" /\ exit' = exit
       ELSE pc' = "exited" /\ exit' = "KeyboardInterrupt"
    /\ UNCHANGED toolVars /\ UNCHANGED <<tool, scenario, requests, latency_ms, cur, phase, n, i, calls, stats,
                   summaries, dispatched, scenStats, callStats, seen, fieldSum, latSum>>

TrafficNext ==
    \/ TrafficStart
    \/ Dispatch
    \/ LoopExit
    \/ SpikeLaunch
    \/ \E k \in 1..MaxRequests, r \in Responses : Respond(k, r)
    \/ \E k \in 1..MaxRequests : ReadBody(k)
    \/ CallReturns
    \/ Wake
    \/ GatherReturns
    \/ CooldownEnds
    \/ PrintSummary
    \/ InterruptSuspended
    \/ InterruptRunning

\* ------------------------------------------------- deploy_datadog.py
\* How a call of the vendor's client library ends.
ClientOutcomes == {"ok", "raise"}

\* The process ends: sys.exit(code), or a return from main (code "0").
Exits(code) == pc' = "exited" /\ exit' = code

\* History: a step of the tool has been carried out to its end.
Did(step) == [trail EXCEPT !.steps = @ \cup {step}]

\* History: a vendor call of the given kind has failed.
Failed(call) == [trail EXCEPT !.failed = @ \cup {call}]

\* A variant of Caught under which no handler swallows a failed call.
CaughtNowhere(call) == FALSE

\* Whether the exception of a failed client call is caught where it is made,
\* so that the function goes on: update_monitor and create_monitor (each in
\* its own try block), list_slos and create_slo.  list_dashboards,
\* update_dashboard and create_dashboard re-raise, list_monitors is outside
\* any try block.
Caught(call) == call \in {"monitor_write", "slo_list", "slo_create"}

\* main's "except Exception" around the three steps: print and sys.exit(1).
DeploymentFailed == reported' = TRUE /\ Exits("1")

\* main, up to the with-block: both credentials are required.
DeployMain ==
    /\ tool = "deploy" /\ pc = "start"
    /\ IF ~api_key \/ ~app_key
       THEN reported' = TRUE /\ Exits("1")
       ELSE reported' = reported /\ pc' = "create_dashboard" /\ exit' = exit
    /\ UNCHANGED <<tool, trafficVars, api_key, app_key, apiCalls, vendor, config,
                   existing, idx, created, workflow_id, trail>>

\* create_dashboard: list, then update the first dashboard with the configured
\* title or create one.  Any exception is printed and re-raised, and main's
\* handler prints it and exits 1.
CreateDashboard ==
    /\ tool = "deploy" /\ pc = "create_dashboard"
    /\ \E list \in ClientOutcomes, write \in ClientOutcomes :
          IF list = "raise"
          THEN /\ apiCalls' = apiCalls + 1
               /\ trail' = Failed("dashboard_list")
               /\ vendor' = vendor
               /\ IF Caught("dashboard_list")
                  THEN reported' = TRUE /\ pc' = "create_monitors" /\ exit' = exit
                  ELSE DeploymentFailed
          ELSE /\ apiCalls' = apiCalls + 2
               /\ IF write = "raise"
                  THEN /\ trail' = Failed("dashboard_write")
                       /\ vendor' = vendor
                       /\ IF Caught("dashboard_write")
                          THEN reported' = TRUE /\ pc' = "create_monitors" /\ exit' = exit
                          ELSE DeploymentFailed
                  ELSE /\ reported' = reported /\ pc' = "create_monitors" /\ exit' = exit
                       /\ trail' = Did("dashboard")
                       /\ vendor' = IF vendor.dashboards > 0 THEN vendor
                                    ELSE [vendor EXCEPT !.dashboards = 1]
    /\ UNCHANGED <<tool, trafficVars, api_key, app_key, config, existing, idx,
                   created, workflow_id>>

\* create_monitors, up to its loop: monitors.json is loaded and the vendor's
\* monitors are listed, outside any try block.
ListMonitors ==
    /\ tool = "deploy" /\ pc = "create_monitors"
    /\ apiCalls' = apiCalls + 1
    /\ \E cfg \in ConfigLists, list \in ClientOutcomes :
          IF list = "raise" /\ ~Caught("monitor_list")
          THEN /\ DeploymentFailed
               /\ trail' = Failed("monitor_list")
               /\ UNCHANGED <<config, existing, idx>>
          ELSE /\ config' = cfg
               /\ existing' = IF list = "raise" THEN {}
                              ELSE {x \in Names : vendor.monitors[x] > 0}
               /\ idx' = 1
               /\ trail' = IF list = "raise" THEN Failed("monitor_list") ELSE trail
               /\ reported' = reported /\ pc' = "monitor_loop" /\ exit' = exit
    /\ UNCHANGED <<tool, trafficVars, api_key, app_key, vendor, created, workflow_id>>

\* History: a create call is being issued for a name the vendor already holds.
NoteCreate(tr, held) == IF held > 0 THEN [tr EXCEPT !.dup = TRUE] ELSE tr

\* One iteration of create_monitors' loop: update a monitor whose name was
\* listed, create the others; a failure is printed and the loop goes on.
MonitorStep ==
    /\ tool = "deploy" /\ pc = "monitor_loop" /\ idx <= Len(config)
    /\ apiCalls' = apiCalls + 1
    /\ \E out \in ClientOutcomes :
          LET name == config[idx]
              tr == IF name \in existing THEN trail
                    ELSE NoteCreate(trail, vendor.monitors[name])
          IN  IF out = "raise"
              THEN /\ trail' = [tr EXCEPT !.failed = @ \cup {"monitor_write"}]
                   /\ UNCHANGED <<vendor, created>>
                   /\ IF Caught("monitor_write")
                      THEN reported' = TRUE /\ idx' = idx + 1 /\ UNCHANGED <<pc, exit>>
                      ELSE DeploymentFailed /\ idx' = idx
              ELSE /\ reported' = reported /\ idx' = idx + 1 /\ UNCHANGED <<pc, exit>>
                   /\ trail' = tr
                   /\ IF name \in existing
                      THEN UNCHANGED <<vendor, created>>
                      ELSE /\ vendor' = [vendor EXCEPT !.monitors[name] = @ + 1]
                           /\ created' = [created EXCEPT !.monitors = @ + 1]
    /\ UNCHANGED <<tool, trafficVars, api_key, app_key, config, existing, workflow_id>>

\* create_monitors returns; create_slos starts: slos.json is loaded and the
\* vendor's SLOs are listed; a failed listing counts as "none exist".
ListSlos ==
    /\ tool = "deploy" /\ pc = "monitor_loop" /\ idx > Len(config)
    /\ apiCalls' = apiCalls + 1
    /\ \E cfg \in ConfigLists, list \in ClientOutcomes :
          IF list = "raise" /\ ~Caught("slo_list")
          THEN /\ DeploymentFailed
               /\ trail' = [Did("monitors") EXCEPT !.failed = @ \cup {"slo_list"}]
               /\ UNCHANGED <<config, existing, idx>>
          ELSE /\ config' = cfg
               /\ existing' = IF list = "raise" THEN {}
                              ELSE {x \in Names : vendor.slos[x] > 0}
               /\ trail' = IF list = "raise"
                           THEN [Did("monitors") EXCEPT !.failed = @ \cup {"slo_list"}]
                           ELSE Did("monitors")
               /\ idx' = 1
               /\ pc' = "slo_loop" /\ UNCHANGED <<exit, reported>>
    /\ UNCHANGED <<tool, trafficVars, api_key, app_key, vendor, created, workflow_id>>

\* One iteration of create_slos' loop: skip a listed name, create the others.
SloStep ==
    /\ tool = "deploy" /\ pc = "slo_loop" /\ idx <= Len(config)
    /\ IF config[idx] \in existing
       THEN idx' = idx + 1 /\ UNCHANGED <<apiCalls, reported, vendor, created, trail, pc, exit>>
       ELSE /\ apiCalls' = apiCalls + 1
            /\ \E out \in ClientOutcomes :
                  LET name == config[idx]
                      tr == NoteCreate(trail, vendor.slos[name])
                  IN  IF out = "raise"
                      THEN /\ trail' = [tr EXCEPT !.failed = @ \cup {"slo_create"}]
                           /\ UNCHANGED <<vendor, created>>
                           /\ IF Caught("slo_create")
                              THEN reported' = TRUE /\ idx' = idx + 1 /\ UNCHANGED <<pc, exit>>
                              ELSE DeploymentFailed /\ idx' = idx
                      ELSE /\ reported' = reported /\ idx' = idx + 1 /\ UNCHANGED <<pc, exit>>
                           /\ trail' = tr
                           /\ vendor' = [vendor EXCEPT !.slos[name] = @ + 1]
                           /\ created' = [created EXCEPT !.slos = @ + 1]
    /\ UNCHANGED <<tool, trafficVars, api_key, app_key, config, existing, workflow_id>>

\* create_slos returns, main prints "DEPLOYMENT COMPLETE" and returns.
DeployComplete ==
    /\ tool = "deploy" /\ pc = "slo_loop" /\ idx > Len(config)
    /\ Exits("0")
    /\ trail' = Did("slos")
    /\ UNCHANGED <<tool, trafficVars, api_key, app_key, reported, apiCalls, vendor,
                   config, existing, idx, created, workflow_id>>

\* ------------------------------------------------- setup_workflow.py
\* How api_request ends: a parsed answer, None after an HTTPError, or an
\* exception other than HTTPError (URLError, ...), which it does not catch.
ApiOutcomes == {"ok", "http_error", "url_error"}

\* What main of the workflow tool does when a credential is missing: it
\* prints the error and returns.
WorkflowMissingCredential == reported' = TRUE /\ Exits("0")

\* An exception api_request does not catch leaves main: traceback, status 1.
Uncaught == reported' = TRUE /\ Exits("1")

\* main, up to delete_all_incidents.
WorkflowMain ==
    /\ tool = "workflow" /\ pc = "start"
    /\ IF ~api_key \/ ~app_key
       THEN WorkflowMissingCredential
       ELSE reported' = reported /\ pc' = "delete_incidents" /\ exit' = exit
    /\ UNCHANGED <<tool, trafficVars, api_key, app_key, apiCalls, vendor, config,
                   existing, idx, created, workflow_id, trail>>

\* delete_all_incidents, up to its loop: GET /api/v2/incidents.
ListIncidents ==
    /\ tool = "workflow" /\ pc = "delete_incidents"
    /\ apiCalls' = apiCalls + 1
    /\ \E out \in ApiOutcomes :
          CASE out = "url_error" ->
                 Uncaught /\ idx' = idx /\ trail' = Failed("transport")
            [] out = "http_error" ->
                 /\ reported' = TRUE /\ pc' = "create_workflow" /\ exit' = exit /\ idx' = idx
                 /\ trail' = [Did("incidents") EXCEPT !.failed = @ \cup {"incident_list"}]
            [] OTHER ->
                 /\ reported' = reported /\ exit' = exit
                 /\ IF vendor.incidents = 0
                    THEN pc' = "create_workflow" /\ idx' = idx /\ trail' = Did("incidents")
                    ELSE pc' = "incident_loop" /\ idx' = 1 /\ trail' = trail
    /\ UNCHANGED <<tool, trafficVars, api_key, app_key, vendor, config, existing,
                   created, workflow_id>>

\* One iteration of delete_all_incidents' loop: PATCH the incident to
\* "resolved"; the answer is not looked at.
PatchIncident ==
    /\ tool = "workflow" /\ pc = "incident_loop"
    /\ apiCalls' = apiCalls + 1
    /\ \E out \in ApiOutcomes :
          CASE out = "url_error" ->
                 Uncaught /\ idx' = idx /\ trail' = Failed("transport")
            [] OTHER ->
                 /\ reported' = (reported \/ out = "http_error")
                 /\ exit' = exit
                 /\ idx' = idx + 1
                 /\ pc' = IF idx < vendor.incidents THEN "incident_loop"
                                                    ELSE "create_workflow"
                 /\ LET tr == IF out = "http_error" THEN Failed("incident_patch") ELSE trail
                    IN  trail' = IF idx < vendor.incidents THEN tr
                                 ELSE [tr EXCEPT !.steps = @ \cup {"incidents"}]
    /\ UNCHANGED <<tool, trafficVars, api_key, app_key, vendor, config, existing,
                   created, workflow_id>>

\* main: "if not workflow_id", the manual verification step is run.
NeedsVerification(id) == id = "None"

\* main, after create_workflow has returned id.
AfterCreateWorkflow(id) ==
    /\ pc' = IF NeedsVerification(id) THEN "notification_rule" ELSE "finish"
    /\ exit' = exit

\* create_workflow: GET /api/v2/workflows; an existing "LLM Copilot" workflow
\* is returned, otherwise one is POSTed; a rejected POST prints the manual
\* instructions and returns None.
CreateWorkflow ==
    /\ tool = "workflow" /\ pc = "create_workflow"
    /\ \E list \in ApiOutcomes, post \in ApiOutcomes :
          CASE list = "url_error" ->
                 /\ apiCalls' = apiCalls + 1
                 /\ Uncaught /\ trail' = Failed("transport")
                 /\ UNCHANGED <<vendor, workflow_id>>
            [] list = "ok" /\ vendor.workflow ->
                 /\ apiCalls' = apiCalls + 1
                 /\ workflow_id' = "id"
                 /\ AfterCreateWorkflow("id")
                 /\ trail' = Did("workflow")
                 /\ UNCHANGED <<vendor, reported>>
            [] OTHER ->
                 /\ apiCalls' = apiCalls + 2
                 /\ LET tr == IF list = "http_error" THEN Failed("workflow_list") ELSE trail
                    IN CASE post = "url_error" ->
                              /\ Uncaught /\ UNCHANGED <<vendor, workflow_id>>
                              /\ trail' = [tr EXCEPT !.failed = @ \cup {"transport"}]
                         [] post = "ok" ->
                              /\ vendor' = [vendor EXCEPT !.workflow = TRUE]
                              /\ workflow_id' = "id"
                              /\ reported' = (reported \/ list = "http_error")
                              /\ AfterCreateWorkflow("id")
                              /\ trail' = [tr EXCEPT !.steps = @ \cup {"workflow"}]
                         [] OTHER ->
                              /\ workflow_id' = "None"
                              /\ reported' = TRUE
                              /\ AfterCreateWorkflow("None")
                              /\ vendor' = vendor
                              /\ trail' = [tr EXCEPT !.steps = @ \cup {"workflow"},
                                                     !.failed = @ \cup {"workflow_create"}]
    /\ UNCHANGED <<tool, trafficVars, api_key, app_key, config, existing, idx, created>>

\* setup_monitor_notification_rule: GET the tagged monitors and count those
\* whose message mentions @incident.
SetupMonitorNotificationRule ==
    /\ tool = "workflow" /\ pc = "notification_rule"
    /\ apiCalls' = apiCalls + 1
    /\ \E out \in ApiOutcomes :
          CASE out = "url_error" -> Uncaught /\ trail' = Failed("transport")
            [] out = "http_error" ->
                 /\ reported' = TRUE /\ pc' = "finish" /\ exit' = exit
                 /\ trail' = [Did("verification") EXCEPT !.failed = @ \cup {"monitor_get"}]
            [] OTHER ->
                 /\ reported' = reported /\ pc' = "finish" /\ exit' = exit
                 /\ trail' = Did("verification")
    /\ UNCHANGED <<tool, trafficVars, api_key, app_key, vendor, config, existing,
                   idx, created, workflow_id>>

\* main prints "SETUP COMPLETE" and returns.
WorkflowComplete ==
    /\ tool = "workflow" /\ pc = "finish"
    /\ Exits("0")
    /\ UNCHANGED <<tool, trafficVars, toolVars>>

ToolsNext ==
    \/ DeployMain
    \/ CreateDashboard
    \/ ListMonitors
    \/ MonitorStep
    \/ ListSlos
    \/ SloStep
    \/ DeployComplete
    \/ WorkflowMain
    \/ ListIncidents
    \/ PatchIncident
    \/ CreateWorkflow
    \/ SetupMonitorNotificationRule
    \/ WorkflowComplete

Next == TrafficNext \/ ToolsNext

Spec == Init /\ [][Next]_vars

\* The runs of the traffic generator alone, and of the two vendor tools alone.
SpecTraffic == InitTraffic /\ [][TrafficNext]_vars

SpecTools == InitTools /\ [][ToolsNext]_vars

\* ===================================================================== claims
\* What the current scenario has added to each counter.
Delta(field) == stats[field] - scenStats[field]

\* What the latest sequential call has added to each counter.
CallDelta(field) == stats[field] - callStats[field]

\* The current scenario function has returned without an interrupt.
ScenarioDone ==
    tool = "traffic" /\ pc \in {"cooldown", "summary", "exited"} /\ intrAt = "none"

\* The run has ended without an interrupt.
Completed == tool = "traffic" /\ pc = "exited" /\ intrAt = "none"

\* C1: once an uninterrupted run has completed, total = success + errors,
\* whatever the outcomes of the individual requests were.
C1_TotalIsSuccessPlusErrors ==
    Completed => stats.total = stats.success + stats.errors

\* C2: a scenario run with n requests makes exactly n dispatcher calls, total
\* grows by exactly n, and success and errors together grow by exactly n.
C2_EachRequestCountedOnce ==
    ScenarioDone =>
        /\ dispatched = n
        /\ Delta("total") = n
        /\ Delta("success") + Delta("errors") = n

\* C3: after an interrupt at a suspension point the summary has been printed
\* exactly once and the process has ended normally.
C3_InterruptStillSummarises ==
    (tool = "traffic" /\ intrAt = "suspended" /\ pc = "exited") =>
        (summaries = 1 /\ exit = "0")

\* C4: scenario_spike with n requests starts exactly n calls, all in flight
\* before any of them proceeds, and returns only when all n are done and
\* folded into the statistics.
C4_SpikeJoinsAll ==
    (tool = "traffic" /\ cur = "spike" /\ intrAt = "none" /\ pc # "loop") =>
        /\ dispatched = n
        /\ \A k \in 1..n : calls[k].st # "idle"
        /\ pc # "gather" =>
              /\ \A k \in 1..n : calls[k].st = "done"
              /\ Delta("success") + Delta("errors") >= n

C4_Witness ==
    /\ tool = "traffic" /\ cur = "spike" /\ intrAt = "none" /\ pc = "summary"
    /\ n = MaxRequests
    /\ \E k \in 1..n : calls[k].result.ok
    /\ \E k \in 1..n : ~calls[k].result.ok

\* C5: while the spike's calls are in flight, at every point where the
\* scheduler has control the scenario's counters satisfy
\* total = success + errors.
C5_FoldIsIndivisible ==
    (tool = "traffic" /\ cur = "spike" /\ pc = "gather") =>
        Delta("total") = Delta("success") + Delta("errors")

\* A sequential call has just returned a record for a response that arrived.
ProbeAnswered ==
    /\ tool = "traffic" /\ cur = "errors" /\ pc = "await_call"
    /\ calls[1].st = "done" /\ calls[1].resp.arrived

\* How send_chat counts a well-formed response with the given status.
ChatClass(status) ==
    LET r == [arrived |-> TRUE, status |-> status,
              body |-> IF status = HttpOk THEN "object" ELSE "notjson", tokens |-> -1]
        out == SendChatOnBody(SendChatOnResponse(ZeroStats, r).stats, r).stats
    IN  IF out.success = 1 /\ out.errors = 0 THEN "success"
        ELSE IF out.success = 0 /\ out.errors = 1 THEN "errors" ELSE "other"

\* How the probe that has just returned was counted.
ProbeClass ==
    IF CallDelta("success") = 1 /\ CallDelta("errors") = 0 THEN "success"
    ELSE IF CallDelta("success") = 0 /\ CallDelta("errors") = 1 THEN "errors" ELSE "other"

\* C6 as stated: the probe counts a 200 as a success and a non-200 as an
\* error, and that is the opposite of what send_chat does with that status.
C6_ProbeOppositeOfChat ==
    ProbeAnswered =>
        /\ ProbeClass = (IF calls[1].resp.status = HttpOk THEN "success" ELSE "errors")
        /\ ProbeClass # ChatClass(calls[1].resp.status)

\* C6 as amended: the probe counts a 200 as a success and a non-200 as an
\* error, which is the same as send_chat counts a well-formed response of
\* that status.
C6_ProbeSameAsChat ==
    ProbeAnswered =>
        /\ ProbeClass = (IF calls[1].resp.status = HttpOk THEN "success" ELSE "errors")
        /\ ProbeClass = ChatClass(calls[1].resp.status)

C6_Witness ==
    ProbeAnswered /\ calls[1].resp.status # HttpOk /\ CallDelta("errors") = 1

\* The errors scenario has returned and every probe was answered with 400.
AllProbesRejected ==
    /\ ScenarioDone /\ cur = "errors"
    /\ seen.k = 1 /\ seen.r.arrived /\ seen.r.status = 400

\* C7 as stated: when every probe is answered with HTTP 400, all n probes
\* are counted in success and none in errors.
C7_RejectedProbesAreSuccesses ==
    AllProbesRejected => (Delta("success") = n /\ Delta("errors") = 0)

\* C7 as amended: when every probe is answered with HTTP 400, all n probes
\* are counted in errors and none in success.
C7_RejectedProbesAreErrors ==
    AllProbesRejected => (Delta("errors") = n /\ Delta("success") = 0 /\ Delta("total") = n)

C7_Witness == AllProbesRejected /\ n = MaxRequests /\ pc = "summary"

\* Every request of the scenario was answered 200 with the same
\* tokens.total_tokens.
UniformTokens ==
    /\ seen.k = 1 /\ seen.r.arrived /\ seen.r.status = HttpOk
    /\ seen.r.body = "object" /\ seen.r.tokens >= 0

EndedInFailure(k) ==
    LET r == calls[k].resp
    IN  \/ ~r.arrived
        \/ r.status # HttpOk
        \/ cur # "errors" /\ r.body \in {"notobject", "notjson", "unreadable"}

\* C9: a request that ends in a non-200 status or a network-level failure
\* returns a record with ok = false and a latency, the error counter
\* having been incremented.
C9_FailureRecord ==
    tool = "traffic" =>
        \A k \in 1..MaxRequests :
            (calls[k].st = "done" /\ EndedInFailure(k)) =>
                /\ ~calls[k].result.ok
                /\ calls[k].result.latency
                /\ pc = "await_call" => CallDelta("errors") >= 1

\* C10: when DD_API_KEY or DD_APP_KEY is missing, the provisioning tool and
\* the workflow tool alike report the error, issue no vendor API call and end
\* with a nonzero exit status.
C10_MissingCredentialIsFatal ==
    (tool \in {"deploy", "workflow"} /\ (~api_key \/ ~app_key) /\ pc = "exited") =>
        (reported /\ apiCalls = 0 /\ exit # "0")

\* C11: a run of the provisioning tool never issues a create call for a
\* dashboard, monitor or SLO whose title or name the vendor already holds
\* (one created earlier in the same run included), so no name ends up with
\* more than one asset.
C11_NoCreateForExistingName ==
    tool = "deploy" =>
        /\ ~trail.dup
        /\ vendor.dashboards <= 1
        /\ \A x \in Names : vendor.monitors[x] <= 1 /\ vendor.slos[x] <= 1

\* Both credentials are present.
CredentialsSet == api_key /\ app_key

\* A run of the provisioning or workflow tool, credentials present, has ended.
ToolEnded == tool \in {"deploy", "workflow"} /\ CredentialsSet /\ pc = "exited"

\* The tool has carried out all its steps, and the workflow tool has run the
\* manual verification exactly when create_workflow returned no id.
AllStepsDone ==
    IF tool = "deploy"
    THEN trail.steps = {"dashboard", "monitors", "slos"}
    ELSE /\ {"incidents", "workflow"} \subseteq trail.steps
         /\ ("verification" \in trail.steps) <=> (workflow_id = "None")

FatalCalls == {"dashboard_list", "dashboard_write", "monitor_list", "transport"}

InFlight == {k \in 1..MaxRequests : calls[k].st \in {"posting", "reading"}}

\* C13: outside the spike scenario at most one request is in flight; a
\* request is dispatched only when none is in flight; after a request has
\* returned, the loop goes on to a next request only through the pacing
\* sleep; and a scenario is entered only when no request of the previous one
\* is in flight.
C13_OneAtATimeOutsideSpike ==
    [][ /\ cur' # "spike" => Cardinality(InFlight') <= 1
        /\ (cur # "spike" /\ dispatched' = dispatched + 1) =>
              /\ pc = "loop" /\ InFlight = {}
              /\ i > 0 => calls[1].st = "done"
        /\ (pc = "await_call" /\ pc' = "loop") => (calls[1].st = "done" /\ i' >= n)
        /\ (pc = "sleep" /\ pc' = "loop") => InFlight = {}
        /\ cur' # cur => InFlight = {}
      ]_vars

\* The second request of a sequential scenario is in flight, alone.
C13_Witness ==
    /\ tool = "traffic" /\ cur \in {"normal", "errors", "cost", "safe"}
    /\ intrAt = "none" /\ pc = "await_call" /\ i = 1 /\ dispatched = 2
    /\ InFlight = {1}

\* Two requests of a spike are in flight together.
C13_SpikeOverlaps ==
    /\ tool = "traffic" /\ cur = "spike" /\ intrAt = "none"
    /\ Cardinality(InFlight) >= 2

\* C14: once an uninterrupted run has completed, total_latency_ms is the sum
\* of the latencies measured for all the requests attempted, whether they
\* succeeded, were answered with a non-200 status, failed by exception or
\* were malformed probes.
C14_LatencyCoversEveryAttempt ==
    Completed => stats.total_latency_ms = latSum

============================================================================
